---- MODULE Spec2Model ----
(***************************************************************************)
(* A model of the crawl-and-extract engine of backend/scraper.py:          *)
(*   get_soup        the fetcher with its retry loop,                      *)
(*   scrape_product  the product extractor (name derivation, offers),      *)
(*   crawl_stream    the orchestrator: frontier, worker pool, as_completed *)
(*                   loop, dedup by name, result cap, executor shutdown,   *)
(* and of the /stream-crawl endpoint of backend/main.py:                   *)
(*   event_generator  the consumer that turns records into events.         *)
(* The specifications share the variables:                                 *)
(*   FetchSpec   one get_soup call, one HTTP request per step;             *)
(*   ScrapeSpec  scrape_product applied to one page;                       *)
(*   Spec        one crawl_stream call (FairSpec: with fair scheduling;    *)
(*               RerunSpec: the same site crawled twice);                  *)
(*   StreamSpec  one /stream-crawl request;                                *)
(*   LinkSpec    the two link extractors applied to one page;              *)
(*   FrontierSpec  one crawl_stream call on a start page with more         *)
(*               category links than the crawl visits;                     *)
(*   RecommendSpec  hybrid_marketing_recommendation applied to one record. *)
(***************************************************************************)
EXTENDS Integers, Sequences, FiniteSets, TLC

VARIABLES
    \* ---- get_soup (one call)
    responses,       \* what the server answers to the i-th request of the call
    attempt,         \* the loop index of `for attempt in range(retries)`
    requests,        \* session.get calls issued so far
    soup,            \* "pending", "soup" (a parsed document) or "None"
    \* ---- scrape_product (one call)
    page,            \* the document served for the URL
    fetched,         \* whether get_soup returned a document
    scraped,         \* "unset", or the value scrape_product returned
    \* ---- crawl_stream (one call)
    start_cats,      \* the category links of the start page
    max_products,    \* the argument
    max_workers,     \* size of the ThreadPoolExecutor
    pc,              \* position of the generator body
    first_fetch,     \* outcome of the first get_soup(start_url): "unset", "soup", "None"
    product_links,   \* the frontier
    cat_todo,        \* list(categories)[:5] not yet visited
    futures,         \* submitted URLs in submission order
    status,          \* per product URL: "none", "queued", "running", "done"
    result,          \* per product URL: what scrape_product returned
    ready,           \* as_completed: finished futures about to be yielded
    waiter,          \* as_completed: waiter.finished_futures, in finishing order
    taken,           \* futures already yielded by as_completed
    cur,             \* the future of the current loop iteration (0 between iterations)
    doneAtTake,      \* per emitted future: the tasks finished when as_completed yielded it
    visited_products,
    count,
    emitted,         \* the records yielded so far, in order
    raised,          \* an exception left the loop body
    prev,            \* summary of the previous crawl of the same site (RerunSpec)
    \* ---- the caller of crawl_stream
    start_url,       \* the argument: "valid" or "malformed" (no scheme, no host)
    sse,             \* event_generator of /stream-crawl: "off" (another caller),
                     \* "open" or "closed"
    events,          \* the events event_generator has sent, in order
    \* ---- extract_product_links / extract_category_links (one call each)
    base_url,        \* the page the links are extracted from
    anchors,         \* the href values of its <a> elements
    links,           \* what extract_product_links returned
    categories,      \* what extract_category_links returned
    \* ---- hybrid_marketing_recommendation (one call)
    rec_product,     \* the record after apply_sentiment, and the season
    recommendation   \* "unset", or the recommendation returned

fetchVars == <<responses, attempt, requests, soup>>
scrapeVars == <<page, fetched, scraped>>
crawlVars == <<start_cats, max_products, max_workers, pc, first_fetch, product_links, cat_todo,
               futures, status, result, ready, waiter, taken, cur, doneAtTake,
               visited_products, count, emitted, raised, prev>>
streamVars == <<start_url, sse, events>>
linkVars == <<base_url, anchors, links, categories>>
recVars == <<rec_product, recommendation>>
vars == <<fetchVars, scrapeVars, crawlVars, streamVars, linkVars, recVars>>

(***************************************************************************)
(* Python values, as far as the code looks at them: their type, and for a  *)
(* string its text.  A list stands for any unhashable JSON value.          *)
(***************************************************************************)
NoneV == [type |-> "NoneType", val |-> ""]
Absent == [type |-> "absent", val |-> ""]
Str(s) == [type |-> "str", val |-> s]
ListOf(s) == [type |-> "list", val |-> s]

\* bool(v): None and "" are falsy; a non-empty string or list is truthy.
Truthy(v) == v.type \in {"str", "list"} /\ ~(v.type = "str" /\ v.val = "")

\* hash(v) succeeds: `v in a_set` raises TypeError for a list.
Hashable(v) == v.type # "list"

\* `marker in s` for the strings of the model.
InStockTexts == {"https://schema.org/InStock", "InStock", "InStock, was OutOfStock"}
OutOfStockTexts == {"https://schema.org/OutOfStock", "InStock, was OutOfStock"}

Contains(s, marker) ==
    \/ (marker = "InStock" /\ s \in InStockTexts)
    \/ (marker = "OutOfStock" /\ s \in OutOfStockTexts)

(***************************************************************************)
(* get_soup                                                                *)
(***************************************************************************)
Retries == 3
MaxRequests == 4

Resp == {"ok", "s429", "http_error", "timeout", "conn_error"}

\* A URL without scheme or host: session.get raises MissingSchema or
\* InvalidURL, both RequestException, before anything is sent.
InvalidUrl == "invalid_url"

\* The loop index after an iteration that did not return: `continue` (429) and
\* the except branch both fall to the next value of range(retries).
NextAttemptFree429(a, resp) == IF resp = "s429" THEN a ELSE a + 1

NextAttempt(a, resp) == a + 1

\* One iteration of the retry loop on the state <<attempt, requests, soup>>.
FetchStep(st, resp) ==
    IF resp = "ok"
    THEN [attempt |-> st.attempt, requests |-> st.requests + 1, soup |-> "soup"]
    ELSE [attempt |-> NextAttempt(st.attempt, resp),
          requests |-> st.requests + 1, soup |-> "pending"]

\* `return None` once range(retries) is exhausted.
FetchEnd(st) ==
    IF st.soup = "pending" /\ st.attempt >= Retries
    THEN [st EXCEPT !.soup = "None"]
    ELSE st

RECURSIVE GetSoupRun(_, _)
GetSoupRun(st, rs) ==
    IF st.soup # "pending" THEN st
    ELSE IF st.attempt >= Retries THEN FetchEnd(st)
    ELSE GetSoupRun(FetchStep(st, rs[st.requests + 1]), rs)

\* get_soup(url) against a server answering rs[1], rs[2], ...: "soup" or "None".
get_soup(rs) ==
    GetSoupRun([attempt |-> 0, requests |-> 0, soup |-> "pending"], rs).soup

RespSeqs == [1..Retries -> Resp]

\* What the requests of one call meet, by the kind of URL.
UrlKinds == {"valid", "malformed"}
RespSeqsFor(kind) ==
    IF kind = "malformed" THEN {[i \in 1..Retries |-> InvalidUrl]} ELSE RespSeqs

(***************************************************************************)
(* scrape_product                                                          *)
(***************************************************************************)
\* A JSON number, by its literal, and a bs4 Tag object, by its content
\* attribute.
Num(s) == [type |-> "num", val |-> s]
Tag(content) == [type |-> "Tag", val |-> content]

\* float(text) for the numeric texts of the model, in tenths; every other
\* text makes float() raise ValueError.
FloatTexts == {"0", "3", "4.5", "4.7", "7", "9", "9.9", "12", "-1", "-12"}

TenthsOf(t) ==
    CASE t = "0" -> 0
      [] t = "3" -> 30
      [] t = "4.5" -> 45
      [] t = "4.7" -> 47
      [] t = "7" -> 70
      [] t = "9" -> 90
      [] t = "9.9" -> 99
      [] t = "12" -> 120
      [] t = "-1" -> 0 - 10
      [] t = "-12" -> 0 - 120
      [] OTHER -> 0

\* The texts int() accepts: an integer literal, no decimal point.
IntTexts == {"0", "3", "7", "9", "12", "-1", "-12"}

\* int(x) of a float truncates toward zero.
Trunc(tenths) == IF tenths >= 0 THEN tenths \div 10 ELSE 0 - ((0 - tenths) \div 10)

\* safe_float(x): float(x), or 0 when float() raises (None, a list, a text
\* that is no number).  The result is in tenths.
safe_float(x) ==
    IF x.type \in {"str", "num"} /\ x.val \in FloatTexts THEN TenthsOf(x.val) ELSE 0

\* safe_int(x): int(x), or 0 when int() raises.
safe_int(x) ==
    IF x.type = "num" /\ x.val \in FloatTexts THEN Trunc(TenthsOf(x.val))
    ELSE IF x.type = "str" /\ x.val \in IntTexts THEN Trunc(TenthsOf(x.val))
    ELSE 0

\* re.search(r"([\d\.]+)", text): the first run of digits and dots, Absent
\* when the text has none.
RatingPattern(text) ==
    CASE text = "4.5 stars" -> Str("4.5")
      [] text = "9 out of 10" -> Str("9")
      [] text = "v1.2.3" -> Str("1.2.3")
      [] OTHER -> Absent

\* re.search(r"(\d+)\s*(reviews?|ratings?)?", text, re.I): the first run of
\* digits.
CountPattern(text) ==
    CASE text = "12 reviews" -> Str("12")
      [] text = "(3)" -> Str("3")
      [] text = "4.5 stars" -> Str("4")
      [] OTHER -> Absent

\* ---- the page, as the extractor reads it ----
\* A JSON-LD object: its "@type" and its "name" (NoneV when the key is missing).
Obj(type, name) == [type |-> type, name |-> name]

\* One <script type="application/ld+json">:
\*   "dict"    a top-level object, items = <<the object>>
\*   "graph"   a top-level object that is no Product, items = its "@graph"
\*   "list"    a top-level array, items = its elements
\*   "empty"   a script without string
\*   "invalid" a text json.loads rejects
Block(form, items) == [form |-> form, items |-> items]
ProductBlock(name) == Block("dict", <<Obj("Product", name)>>)

\* One offers object: "dict" with its keys (Absent when a key is missing),
\* or "str" for an element that is no object.
Offer(kind, price, currency, availability) ==
    [kind |-> kind, price |-> price, priceCurrency |-> currency,
     availability |-> availability]
OfferDict(availability) == Offer("dict", Absent, Absent, availability)

\* The "offers" value: form "absent", "dict" (items = <<the object>>) or
\* "list" (items = the elements).
Offers(form, items) == [form |-> form, items |-> items]
NoOffers == Offers("absent", <<>>)

\* "aggregateRating" of the product object.
Aggregate(rv, rc) == [present |-> TRUE, ratingValue |-> rv, reviewCount |-> rc]
NoAggregate == [present |-> FALSE, ratingValue |-> Absent, reviewCount |-> Absent]

\* The element with itemtype http://schema.org/AggregateRating: for each of
\* its itemprop elements the content attribute and the text (Absent: the
\* element is missing).
Microdata(rvc, rvt, rcc, rct) ==
    [present |-> TRUE, rv_content |-> rvc, rv_text |-> rvt,
     rc_content |-> rcc, rc_text |-> rct]
NoMicrodata ==
    [present |-> FALSE, rv_content |-> Absent, rv_text |-> Absent,
     rc_content |-> Absent, rc_text |-> Absent]

\* The review-widget badge and its two data attributes.
Badge(avg, num) == [present |-> TRUE, avg |-> avg, num |-> num]
NoBadge == [present |-> FALSE, avg |-> Absent, num |-> Absent]

\* A page:
\*   scripts        the JSON-LD scripts in document order
\*   og_title       Absent: no og:title meta tag; otherwise its content attribute
\*   og_desc        the same for og:description
\*   h1             Absent: no <h1>; otherwise its stripped text
\*   meta_price     Absent: no product:price:amount tag; otherwise its content
\*   meta_currency  Absent: no product:price:currency tag; otherwise the Tag
\*   offers, aggregate   those keys of the JSON-LD product object
\*   micro, badge, rating_text, count_text   the rating fallbacks' elements
\*   review_bodies, jdgm_revs, generic_blocks   the texts of the elements the
\*                  three review tiers match, in document order
BlankDoc ==
    [scripts |-> <<>>, og_title |-> Absent, og_desc |-> Absent, h1 |-> Absent,
     meta_price |-> Absent, meta_currency |-> Absent,
     offers |-> NoOffers, aggregate |-> NoAggregate, micro |-> NoMicrodata,
     badge |-> NoBadge, rating_text |-> Absent, count_text |-> Absent,
     review_bodies |-> <<>>, jdgm_revs |-> <<>>, generic_blocks |-> <<>>]

\* ---- the JSON-LD scan (lines 127-158) ----
NoProduct == Obj("none", NoneV)

RECURSIVE FirstProduct(_)
FirstProduct(items) ==
    IF items = <<>> THEN NoProduct
    ELSE IF Head(items).type = "Product" THEN Head(items)
    ELSE FirstProduct(Tail(items))

\* The scan of one script: product_data afterwards, and whether the loop
\* over the scripts was left.  The `break` of the @graph and array cases
\* leaves the inner loop only.
ScanScript(product_data, block) ==
    IF block.form = "dict" /\ Head(block.items).type = "Product"
    THEN [product_data |-> Head(block.items), stop |-> TRUE]
    ELSE IF block.form \in {"graph", "list"} /\ FirstProduct(block.items) # NoProduct
    THEN [product_data |-> FirstProduct(block.items), stop |-> FALSE]
    ELSE [product_data |-> product_data, stop |-> FALSE]

RECURSIVE ScanScripts(_, _)
ScanScripts(product_data, scripts) ==
    IF scripts = <<>> THEN product_data
    ELSE LET s == ScanScript(product_data, Head(scripts))
         IN  IF s.stop THEN s.product_data
             ELSE ScanScripts(s.product_data, Tail(scripts))

\* product_data after the scan (NoProduct: still None).
LdProduct(d) == ScanScripts(NoProduct, d.scripts)

\* ---- the meta-tag fallback (lines 163-192) ----
\* product_data after the JSON-LD scan and, when that found nothing, the
\* meta-tag fallback: its "name" entry (NoneV when the key is unset).
MetaNameOrDescription(d) ==
    LET og == IF d.og_title # Absent THEN d.og_title ELSE NoneV
        nm == IF ~Truthy(og) /\ d.h1 # Absent THEN d.h1 ELSE og
    IN  IF ~Truthy(nm) /\ d.og_desc # Absent THEN d.og_desc ELSE nm

MetaName(d) ==
    LET og == IF d.og_title # Absent THEN d.og_title ELSE NoneV
    IN  IF ~Truthy(og) /\ d.h1 # Absent THEN d.h1 ELSE og

HasProductData(d) == LdProduct(d) # NoProduct

\* `if not product_data.get("name"): return None` is inside the fallback only.
RejectsPage(d) == ~HasProductData(d) /\ ~Truthy(MetaName(d))

ProductName(d) == IF HasProductData(d) THEN LdProduct(d).name ELSE MetaName(d)

\* product_data.get("description"): the fallback's og:description.
Description(d) ==
    IF ~HasProductData(d) /\ d.og_desc # Absent THEN d.og_desc ELSE NoneV

\* product_data.get("offers"): the JSON-LD object's, or the one the fallback
\* builds from the price meta pair, whose currency is the Tag itself.
ProductOffers(d) ==
    IF HasProductData(d) THEN d.offers
    ELSE IF d.meta_price # Absent
    THEN Offers("dict", <<Offer("dict", d.meta_price,
                     IF d.meta_currency # Absent THEN d.meta_currency ELSE NoneV,
                     Absent)>>)
    ELSE NoOffers

\* ---- price, currency, availability (lines 199-217) ----
NoOffer == Offer("none", Absent, Absent, Absent)

\* The object the offers block reads: the value itself, or the first element
\* of a non-empty list; NoOffer when that is no dict.
ConsultedOfferLast(d) ==
    LET o == ProductOffers(d)
    IN  IF o.form \in {"dict", "list"} /\ o.items # <<>>
           /\ o.items[Len(o.items)].kind = "dict"
        THEN o.items[Len(o.items)] ELSE NoOffer

ConsultedOffer(d) ==
    LET o == ProductOffers(d)
    IN  IF o.form \in {"dict", "list"} /\ o.items # <<>> /\ Head(o.items).kind = "dict"
        THEN Head(o.items) ELSE NoOffer

\* offers.get("availability", "")
AvailabilityRaw(o) == IF o.availability = Absent THEN Str("") ELSE o.availability

\* the offers block: "InStock" in availability_raw raises TypeError on None.
OffersRaise(d) ==
    ConsultedOffer(d) # NoOffer /\ AvailabilityRaw(ConsultedOffer(d)) = NoneV

AvailabilityOf(d) ==
    LET raw == AvailabilityRaw(ConsultedOffer(d))
    IN  IF ConsultedOffer(d) = NoOffer \/ raw.type # "str" THEN "Unknown"
        ELSE IF Contains(raw.val, "InStock") THEN "In Stock"
        ELSE IF Contains(raw.val, "OutOfStock") THEN "Out of Stock"
        ELSE "Unknown"

\* price: None, or a float in tenths.
NoPrice == [set |-> FALSE, tenths |-> 0]
Price(t) == [set |-> TRUE, tenths |-> t]

PriceOf(d) ==
    IF ConsultedOffer(d) = NoOffer THEN NoPrice
    ELSE Price(safe_float(ConsultedOffer(d).price))

\* offers.get("priceCurrency")
CurrencyOf(d) ==
    IF ConsultedOffer(d) = NoOffer \/ ConsultedOffer(d).priceCurrency = Absent
    THEN NoneV
    ELSE ConsultedOffer(d).priceCurrency

\* ---- rating and review count (lines 220-276) ----
RC(rating, review_count) == [rating |-> rating, review_count |-> review_count]

\* aggregate = product_data.get("aggregateRating")
AggregateOf(d) == IF HasProductData(d) THEN d.aggregate ELSE NoAggregate

FromAggregate(d) ==
    IF AggregateOf(d).present
    THEN RC(safe_float(AggregateOf(d).ratingValue), safe_int(AggregateOf(d).reviewCount))
    ELSE RC(0, 0)

\* One itemprop element of the microdata block: its content attribute when
\* truthy, else its text (Absent: the block has no such element).
MicroField(content, text) ==
    IF text = Absent THEN Absent
    ELSE IF Truthy(content) THEN content
    ELSE text

\* 1) the microdata block, entered when rating == 0.
FromMicrodata(d, rc) ==
    IF rc.rating = 0 /\ d.micro.present
    THEN LET rv == MicroField(d.micro.rv_content, d.micro.rv_text)
             cnt == MicroField(d.micro.rc_content, d.micro.rc_text)
         IN  RC(IF rv # Absent THEN safe_float(rv) ELSE rc.rating,
                IF cnt # Absent THEN safe_int(cnt) ELSE rc.review_count)
    ELSE rc

\* 2) the badge, entered when rating == 0.
FromBadge(d, rc) ==
    IF rc.rating = 0 /\ d.badge.present
    THEN RC(safe_float(d.badge.avg),
            IF rc.review_count = 0 THEN safe_int(d.badge.num) ELSE rc.review_count)
    ELSE rc

\* 3) the text of the first element whose class matches "rating".
FromRatingText(d, rc) ==
    IF rc.rating = 0 /\ d.rating_text # Absent
       /\ RatingPattern(d.rating_text.val) # Absent
    THEN RC(safe_float(RatingPattern(d.rating_text.val)), rc.review_count)
    ELSE rc

\* 4) the text of the first element whose class matches "review".
FromCountText(d, rc) ==
    IF rc.review_count = 0 /\ d.count_text # Absent
       /\ CountPattern(d.count_text.val) # Absent
    THEN RC(rc.rating, safe_int(CountPattern(d.count_text.val)))
    ELSE rc

RatingOf(d) ==
    FromCountText(d, FromRatingText(d, FromBadge(d, FromMicrodata(d, FromAggregate(d)))))

\* ---- review texts (lines 279-307) ----
ReviewCap == 5

NonEmpty(texts) == SelectSeq(texts, LAMBDA t : t # "")
FirstN(q, n) == SubSeq(q, 1, IF Len(q) < n THEN Len(q) ELSE n)

\* The three tiers without the `if not reviews` tests.
ReviewsOfMerged(d) ==
    NonEmpty(d.review_bodies) \o NonEmpty(FirstN(d.jdgm_revs, ReviewCap))
        \o NonEmpty(FirstN(d.generic_blocks, ReviewCap))

\* Tier 1 takes every reviewBody element; tiers 2 and 3 look at the first
\* five blocks, and only while the list is still empty.
ReviewsOf(d) ==
    LET bodies == NonEmpty(d.review_bodies)
        jdgm == NonEmpty(FirstN(d.jdgm_revs, ReviewCap))
        generic == NonEmpty(FirstN(d.generic_blocks, ReviewCap))
    IN  IF bodies # <<>> THEN bodies
        ELSE IF jdgm # <<>> THEN jdgm
        ELSE generic

\* ---- the result ----
\* What scrape_product returns: None (the page was not fetched, has no
\* name, or an exception was caught and logged) or the record.
NoRecord ==
    [kind |-> "None", product_name |-> NoneV, description |-> NoneV,
     price |-> NoPrice, currency |-> NoneV, availability |-> "Unknown",
     rating |-> 0, review_count |-> 0, reviews |-> <<>>, product_url |-> 0]

\* The result of a call that has not returned yet.
Unset == [NoRecord EXCEPT !.kind = "unset"]

scrape_product(url, gotSoup, d) ==
    IF ~gotSoup THEN NoRecord
    ELSE IF RejectsPage(d) THEN NoRecord
    ELSE IF OffersRaise(d) THEN NoRecord
    ELSE [kind |-> "record", product_name |-> ProductName(d),
          description |-> Description(d),
          price |-> PriceOf(d), currency |-> CurrencyOf(d),
          availability |-> AvailabilityOf(d),
          rating |-> RatingOf(d).rating, review_count |-> RatingOf(d).review_count,
          reviews |-> ReviewsOf(d), product_url |-> url]

IsRecord(r) == r.kind = "record"

(***************************************************************************)
(* FetchSpec: one get_soup call, a request per step                        *)
(***************************************************************************)
IdleFetch ==
    /\ responses = <<>>
    /\ attempt = 0
    /\ requests = 0
    /\ soup = "idle"

IdleScrape ==
    /\ page = BlankDoc
    /\ fetched = FALSE
    /\ scraped = Unset

FetchInit ==
    /\ responses \in [1..MaxRequests -> Resp] \cup {[i \in 1..MaxRequests |-> InvalidUrl]}
    /\ attempt = 0
    /\ requests = 0
    /\ soup = "pending"

\* One pass through the body of the for loop: sleep, session.get, and either
\* return the document, `continue` on 429, or catch the RequestException.
GetSoupAttempt ==
    /\ UNCHANGED <<scrapeVars, crawlVars, streamVars, linkVars, recVars>>
    /\ soup = "pending"
    /\ attempt < Retries
    /\ requests < MaxRequests
    /\ LET st == FetchStep([attempt |-> attempt, requests |-> requests,
                            soup |-> soup], responses[requests + 1])
       IN  /\ attempt' = st.attempt
           /\ requests' = st.requests
           /\ soup' = st.soup
    /\ UNCHANGED responses

\* The loop is exhausted: return None.
GetSoupGiveUp ==
    /\ UNCHANGED <<scrapeVars, crawlVars, streamVars, linkVars, recVars>>
    /\ soup = "pending"
    /\ attempt >= Retries
    /\ soup' = "None"
    /\ UNCHANGED <<responses, attempt, requests>>

(***************************************************************************)
(* ScrapeSpec: scrape_product on one page                                  *)
(***************************************************************************)
\* The pages scrape_product is applied to: families that vary one part of the
\* page each.
\*   ld      Absent: no JSON-LD script; otherwise one Product object's "name"
\*   av      Absent: no offers object; NoneV: "availability": null; otherwise
\*           the availability string
LdNames == {Absent, NoneV, Str(""), Str("Widget"), Str("Gadget"), ListOf("Widget")}
OgTitles == {Absent, NoneV, Str(""), Str("Gadget")}
H1s == {Absent, Str(""), Str("Widget")}
Availabilities == {Absent, Str(""), Str("https://schema.org/InStock"),
                   Str("https://schema.org/OutOfStock"), NoneV}

ScriptsOf(ld) == IF ld = Absent THEN <<>> ELSE <<ProductBlock(ld)>>
OffersOf(av) == IF av = Absent THEN NoOffers ELSE Offers("dict", <<OfferDict(av)>>)

NameDocs ==
    {[BlankDoc EXCEPT !.scripts = ScriptsOf(ld), !.og_title = og, !.h1 = h,
                      !.offers = OffersOf(av)] :
        ld \in LdNames, og \in OgTitles, h \in H1s, av \in Availabilities}

MetaPrices == {Absent, NoneV, Str("9.9"), Str("free")}

MetaDocs ==
    {[BlankDoc EXCEPT !.scripts = ScriptsOf(ld), !.og_title = og, !.h1 = h,
                      !.og_desc = de, !.meta_price = mp, !.meta_currency = mc] :
        ld \in {Absent, Str("Widget")}, og \in {Absent, Str("Gadget")},
        h \in {Absent, Str("Widget")}, de \in {Absent, Str("A fine gadget")},
        mp \in MetaPrices, mc \in {Absent, Tag("USD")}}

MaxScripts == 2

Blocks ==
    { Block("empty", <<>>), Block("invalid", <<>>),
      ProductBlock(Str("Widget")), ProductBlock(Str("Gadget")),
      Block("dict", <<Obj("Organization", Str("Shop"))>>),
      Block("graph", <<>>),
      Block("graph", <<Obj("WebPage", Str("Page")), Obj("Product", Str("Gizmo"))>>),
      Block("graph", <<Obj("Product", Str("Gizmo")), Obj("Product", Str("Widget"))>>),
      Block("list", <<Obj("BreadcrumbList", NoneV), Obj("Product", Str("Doohickey"))>>) }

ScriptSeqs == UNION {[1..n -> Blocks] : n \in 0..MaxScripts}

ScriptDocs ==
    {[BlankDoc EXCEPT !.scripts = sc, !.og_title = og] :
        sc \in ScriptSeqs, og \in {Absent, Str("Gadget")}}

AvailabilityValues ==
    {Absent, NoneV, Str(""), Str("InStock"), Str("instock"),
     Str("https://schema.org/InStock"), Str("https://schema.org/OutOfStock"),
     Str("https://schema.org/PreOrder"), Str("InStock, was OutOfStock")}

OfferLists ==
    {<<>>, <<Offer("str", Absent, Absent, Absent)>>,
     <<Offer("str", Absent, Absent, Absent), OfferDict(Str("InStock"))>>} \cup
    {<<OfferDict(a), OfferDict(b)>> :
        a, b \in {Absent, Str("https://schema.org/InStock"),
                  Str("https://schema.org/OutOfStock")}}

OffersValues ==
    {NoOffers} \cup
    {Offers("dict", <<Offer("dict", p, c, a)>>) :
        p \in {Absent, Num("9.9"), Str("free")}, c \in {Absent, Str("USD")},
        a \in AvailabilityValues} \cup
    {Offers("list", q) : q \in OfferLists}

OfferDocs ==
    {[BlankDoc EXCEPT !.scripts = ScriptsOf(Str("Widget")), !.offers = o] :
        o \in OffersValues}

RatingValues ==
    {Absent, Str("4.5"), Num("4.7"), Str("9"), Str("-1"), Str("-12"), Str("n/a")}
CountValues == {Absent, Str("12"), Num("4.7"), Str("-1")}

Aggregates ==
    {NoAggregate} \cup {Aggregate(rv, rc) : rv \in RatingValues, rc \in CountValues}

Microdatas ==
    {NoMicrodata} \cup
    {Microdata(rv[1], rv[2], rc[1], rc[2]) :
        rv \in {<<Absent, Absent>>, <<Str("3"), Str("")>>, <<Absent, Str("4.5")>>,
                <<Str(""), Str("9")>>},
        rc \in {<<Absent, Absent>>, <<Str("7"), Str("")>>, <<Absent, Str("3")>>}}

Badges ==
    {NoBadge, Badge(Str("4.7"), Str("9")), Badge(Absent, Str("9")),
     Badge(Str("12"), Absent)}

RatingTexts == {Absent, Str("4.5 stars"), Str("9 out of 10"), Str("No rating")}
CountTexts == {Absent, Str("12 reviews"), Str("4.5 stars")}

\* The structured value against the microdata block and the badge, and
\* against the badge and the two scraped texts.
RatingDocs ==
    {[BlankDoc EXCEPT !.scripts = ScriptsOf(Str("Widget")), !.aggregate = ag,
                      !.micro = mi, !.badge = ba] :
        ag \in Aggregates, mi \in Microdatas, ba \in Badges} \cup
    {[BlankDoc EXCEPT !.scripts = ScriptsOf(Str("Widget")), !.aggregate = ag,
                      !.badge = ba, !.rating_text = rt, !.count_text = ct] :
        ag \in Aggregates, ba \in Badges, rt \in RatingTexts, ct \in CountTexts}

MaxReviewTags == 6

\* The texts of n matching elements, n one of lens: all `text`, or with an
\* empty first one, or all empty, or all empty but the last one.
TextLists(text, lens) ==
    {[i \in 1..n |-> IF i \in blank THEN "" ELSE text] :
        n \in lens, blank \in {{}, {1}, 1..MaxReviewTags}} \cup
    {[i \in 1..n |-> IF i < n THEN "" ELSE text] : n \in lens \ {0}}

ReviewDocs ==
    {[BlankDoc EXCEPT !.og_title = Str("Gadget"), !.review_bodies = rb,
                      !.jdgm_revs = jr, !.generic_blocks = gb] :
        rb \in TextLists("body", 0..MaxReviewTags),
        jr \in TextLists("jdgm", {0, 2, MaxReviewTags}),
        gb \in TextLists("generic", {0, 2, MaxReviewTags})}

Docs == NameDocs \cup MetaDocs \cup ScriptDocs \cup OfferDocs \cup RatingDocs
            \cup ReviewDocs

ScrapeInit ==
    /\ page \in Docs
    /\ fetched \in BOOLEAN
    /\ scraped = Unset

ScrapeUrl == 1

Scrape ==
    /\ UNCHANGED <<fetchVars, crawlVars, streamVars, linkVars, recVars>>
    /\ scraped = Unset
    /\ scraped' = scrape_product(ScrapeUrl, fetched, page)
    /\ UNCHANGED <<page, fetched>>

(***************************************************************************)
(* The site crawled.  Product URL k stands for https://shop/products/k,    *)
(* category URL c for https://shop/collections/c.  The start page links to *)
(* product 1 and to every category; the categories share out the others.   *)
(***************************************************************************)
NumProducts == 2
NumCategories == 1
MaxProductsBound == 2
MaxWorkers == 8
MaxCategories == 5

ProductUrls == 1..NumProducts
CategoryUrls == 1..NumCategories

StartProductLinks == {1}
StartCategoryLinks == CategoryUrls

\* A start page with one category link more than the crawl visits; the
\* categories beyond CategoryUrls list no product.
ManyCategoryLinks == 1..(MaxCategories + 1)
CategoryProductLinks(c) ==
    {k \in 2..NumProducts : ((k - 2) % NumCategories) + 1 = c}

\* The pages a product URL may serve in a crawl.
DocOf(ld, og, av) ==
    [BlankDoc EXCEPT !.scripts = ScriptsOf(ld), !.og_title = og, !.offers = OffersOf(av)]

CrawlDocs ==
    { DocOf(Str("Widget"), Absent, Str("https://schema.org/InStock")),
      DocOf(Absent, Str("Gadget"), Absent),
      DocOf(NoneV, Absent, Absent),
      DocOf(ListOf("Widget"), Absent, Absent),
      DocOf(Str("Widget"), Absent, NoneV) }

\* The pages served to a /stream-crawl request: those, and a page without
\* JSON-LD that has the price meta pair.
StreamDocs ==
    CrawlDocs \cup
    { [DocOf(Absent, Str("Gizmo"), Absent) EXCEPT !.meta_price = Str("9.9"),
                                                  !.meta_currency = Tag("USD")] }

\* get_soup's possible outcomes over every run of server responses.
SoupOutcomes == {get_soup(rs) : rs \in RespSeqs}
SoupOutcomesFor(kind) == {get_soup(rs) : rs \in RespSeqsFor(kind)}

\* All orders of a finite set (the iteration order of a Python set).
RECURSIVE Orders(_)
Orders(S) ==
    IF S = {} THEN {<<>>}
    ELSE UNION {{<<x>> \o t : t \in Orders(S \ {x})} : x \in S}

\* list(categories): every category, in set order.
FirstCategoriesUnsliced(cats) == Orders(cats)

\* list(categories)[:5]: at most 5 of the categories, in set order.
FirstCategories(cats) ==
    UNION {Orders(T) : T \in {X \in SUBSET cats :
                Cardinality(X) = IF Cardinality(cats) < MaxCategories
                                 THEN Cardinality(cats) ELSE MaxCategories}}

SeqToSet(q) == {q[i] : i \in 1..Len(q)}
Remove(q, x) == SelectSeq(q, LAMBDA y : y # x)

NoPrev ==
    [ran |-> FALSE, results |-> [u \in ProductUrls |-> Unset], names |-> {}]

\* The pool sizes compared: a single worker, and the code's.
PoolSizes == {1, MaxWorkers}

CrawlInitFor(caps, pools) ==
    /\ max_products \in caps
    /\ max_workers \in pools
    /\ start_url \in UrlKinds
    /\ pc = "start"
    /\ first_fetch = "unset"
    /\ product_links = {}
    /\ cat_todo = <<>>
    /\ futures = <<>>
    /\ status = [u \in ProductUrls |-> "none"]
    /\ result = [u \in ProductUrls |-> Unset]
    /\ ready = <<>>
    /\ waiter = <<>>
    /\ taken = {}
    /\ cur = 0
    /\ doneAtTake = [u \in ProductUrls |-> {}]
    /\ visited_products = {}
    /\ count = 0
    /\ emitted = <<>>
    /\ raised = FALSE
    /\ prev = NoPrev

CrawlInitWith(pools) == CrawlInitFor((0 - 1)..MaxProductsBound, pools)

CrawlInit == CrawlInitWith({MaxWorkers})

\* crawl_stream is read by a caller other than event_generator.
StreamOff ==
    /\ sse = "off"
    /\ events = <<>>

\* The start page links to the categories of CategoryUrls.
SmallSite == start_cats = StartCategoryLinks

orchVars == <<pc, first_fetch, product_links, cat_todo, futures, ready, taken, cur,
              doneAtTake, visited_products, count, emitted, raised>>

\* product_links.update(extract_product_links(start_url))
ExtractStartProducts ==
    /\ UNCHANGED <<fetchVars, scrapeVars, streamVars, linkVars, recVars>>
    /\ pc = "start"
    /\ \E s \in SoupOutcomesFor(start_url) :
          /\ first_fetch' = s
          /\ product_links' = IF s = "soup" THEN StartProductLinks ELSE {}
    /\ pc' = "categories"
    /\ UNCHANGED <<start_cats, max_products, max_workers, cat_todo, futures, status, result,
                   ready, waiter, taken, cur, doneAtTake, visited_products, count,
                   emitted, raised, prev>>

\* categories = extract_category_links(start_url): a second fetch of the page.
ExtractStartCategories ==
    /\ UNCHANGED <<fetchVars, scrapeVars, streamVars, linkVars, recVars>>
    /\ pc = "categories"
    /\ \E s \in SoupOutcomesFor(start_url) :
          cat_todo' \in FirstCategories(IF s = "soup" THEN start_cats ELSE {})
    /\ pc' = "cat_loop"
    /\ UNCHANGED <<start_cats, max_products, max_workers, first_fetch, product_links, futures,
                   status, result, ready, waiter, taken, cur, doneAtTake,
                   visited_products, count, emitted, raised, prev>>

\* for cat in list(categories)[:5]: product_links.update(extract_product_links(cat))
ExtractCategoryProducts ==
    /\ UNCHANGED <<fetchVars, scrapeVars, streamVars, linkVars, recVars>>
    /\ pc = "cat_loop"
    /\ cat_todo # <<>>
    /\ \E s \in SoupOutcomes :
          product_links' = product_links \cup
              (IF s = "soup" THEN CategoryProductLinks(Head(cat_todo)) ELSE {})
    /\ cat_todo' = Tail(cat_todo)
    /\ UNCHANGED <<start_cats, max_products, max_workers, pc, first_fetch, futures, status,
                   result, ready, waiter, taken, cur, doneAtTake, visited_products,
                   count, emitted, raised, prev>>

\* The executor is created and every URL of the frontier is submitted, in the
\* iteration order of the set.
Submit ==
    /\ UNCHANGED <<fetchVars, scrapeVars, streamVars, linkVars, recVars>>
    /\ pc = "cat_loop"
    /\ cat_todo = <<>>
    /\ futures' \in Orders(product_links)
    /\ status' = [u \in ProductUrls |-> IF u \in product_links THEN "queued" ELSE "none"]
    /\ pc' = "as_completed"
    /\ UNCHANGED <<start_cats, max_products, max_workers, first_fetch, product_links, cat_todo,
                   result, ready, waiter, taken, cur, doneAtTake, visited_products,
                   count, emitted, raised, prev>>

Running == {u \in ProductUrls : status[u] = "running"}
Finished == {u \in ProductUrls : status[u] = "done"}
Queued == {u \in ProductUrls : status[u] = "queued"}

\* A worker thread takes the oldest work item of the executor's queue.
StartTask ==
    /\ UNCHANGED <<fetchVars, scrapeVars, streamVars, linkVars, recVars>>
    /\ Queued # {}
    /\ Cardinality(Running) < max_workers
    /\ LET u == futures[CHOOSE i \in 1..Len(futures) :
                     /\ status[futures[i]] = "queued"
                     /\ \A j \in 1..(i - 1) : status[futures[j]] # "queued"]
       IN  status' = [status EXCEPT ![u] = "running"]
    /\ UNCHANGED <<start_cats, max_products, max_workers, result, waiter, prev>>
    /\ UNCHANGED orchVars

\* as_completed has installed its waiter: a finishing future is appended to
\* waiter.finished_futures.
WaiterInstalled == pc \in {"loop", "result", "yielded"}

\* What scrape_product(u) may return: any outcome of the fetch on any page;
\* in a second crawl of the same site, what it returned in the first.
FreshResults ==
    [u \in ProductUrls |->
        {scrape_product(u, s = "soup", d) : s \in SoupOutcomes, d \in CrawlDocs}]

StreamResults ==
    [u \in ProductUrls |->
        {scrape_product(u, s = "soup", d) : s \in SoupOutcomes, d \in StreamDocs}]

TaskResults(u) ==
    IF prev.ran /\ prev.results[u] # Unset
    THEN {prev.results[u]}
    ELSE IF sse = "off" THEN FreshResults[u]
    ELSE StreamResults[u]

\* A worker runs scrape_product(u) to its end and sets the future's result.
CompleteTask(u) ==
    /\ UNCHANGED <<fetchVars, scrapeVars, streamVars, linkVars, recVars>>
    /\ status[u] = "running"
    /\ \E r \in TaskResults(u) : result' = [result EXCEPT ![u] = r]
    /\ status' = [status EXCEPT ![u] = "done"]
    /\ waiter' = IF WaiterInstalled THEN Append(waiter, u) ELSE waiter
    /\ UNCHANGED <<start_cats, max_products, max_workers, prev>>
    /\ UNCHANGED orchVars

\* for future in as_completed(futures): the futures already finished come
\* first, in set order.
AsCompleted ==
    /\ UNCHANGED <<fetchVars, scrapeVars, streamVars, linkVars, recVars>>
    /\ pc = "as_completed"
    /\ ready' \in Orders(Finished)
    /\ pc' = "loop"
    /\ UNCHANGED <<start_cats, max_products, max_workers, first_fetch, product_links, cat_todo,
                   futures, status, result, waiter, taken, cur, doneAtTake,
                   visited_products, count, emitted, raised, prev>>

\* The future a loop iteration over the plain `futures` dict would take.
NextFuturesSubmitted ==
    {futures[i] : i \in {k \in 1..Len(futures) :
        /\ futures[k] \notin taken
        /\ \A j \in 1..(k - 1) : futures[j] \in taken}}

\* The future as_completed yields next: a finished one, the already finished
\* first, then the others in finishing order.
NextFutures ==
    IF ready # <<>> THEN {Head(ready)}
    ELSE IF waiter # <<>> THEN {Head(waiter)}
    ELSE {}

Take ==
    /\ UNCHANGED <<fetchVars, scrapeVars, streamVars, linkVars, recVars>>
    /\ pc = "loop"
    /\ \E u \in NextFutures :
          /\ cur' = u
          /\ taken' = taken \cup {u}
          /\ doneAtTake' = [doneAtTake EXCEPT ![u] = Finished]
          /\ ready' = Remove(IF ready # <<>> THEN ready ELSE waiter, u)
          /\ waiter' = IF ready # <<>> THEN waiter ELSE <<>>
    /\ pc' = "result"
    /\ UNCHANGED <<start_cats, max_products, max_workers, first_fetch, product_links, cat_todo,
                   futures, status, result, visited_products, count, emitted, raised,
                   prev>>

\* `if not product: continue` and `if not name ...: continue`
Skips(product) == ~IsRecord(product) \/ ~Truthy(product.product_name)

\* `name in visited_products`
IsDuplicateNever(name, visited) == FALSE

IsDuplicate(name, visited) == name \in visited

\* product = future.result(timeout=30), then the checks up to `continue`.
Skip ==
    /\ UNCHANGED <<fetchVars, scrapeVars, streamVars, linkVars, recVars>>
    /\ pc = "result"
    /\ status[cur] = "done"
    /\ LET product == result[cur]
       IN  \/ Skips(product)
           \/ /\ Hashable(product.product_name)
              /\ IsDuplicate(product.product_name, visited_products)
    /\ pc' = "loop"
    /\ cur' = 0
    /\ doneAtTake' = [doneAtTake EXCEPT ![cur] = {}]
    /\ UNCHANGED <<start_cats, max_products, max_workers, first_fetch, product_links, cat_todo,
                   futures, status, result, ready, waiter, taken,
                   visited_products, count, emitted, raised, prev>>

\* `name in visited_products` raises TypeError: the exception leaves the loop
\* and the with block.
RaiseUnhashable ==
    /\ UNCHANGED <<fetchVars, scrapeVars, streamVars, linkVars, recVars>>
    /\ pc = "result"
    /\ status[cur] = "done"
    /\ ~Skips(result[cur])
    /\ ~Hashable(result[cur].product_name)
    /\ raised' = TRUE
    /\ pc' = "shutdown"
    /\ UNCHANGED <<start_cats, max_products, max_workers, first_fetch, product_links, cat_todo,
                   futures, status, result, ready, waiter, taken, cur, doneAtTake,
                   visited_products, count, emitted, prev>>

\* visited_products.add(name); yield product
Yield ==
    /\ UNCHANGED <<fetchVars, scrapeVars, streamVars, linkVars, recVars>>
    /\ pc = "result"
    /\ status[cur] = "done"
    /\ LET product == result[cur]
       IN  /\ ~Skips(product)
           /\ Hashable(product.product_name)
           /\ ~IsDuplicate(product.product_name, visited_products)
           /\ visited_products' = visited_products \cup {product.product_name}
           /\ emitted' = Append(emitted, product)
    /\ pc' = "yielded"
    /\ UNCHANGED <<start_cats, max_products, max_workers, first_fetch, product_links, cat_todo,
                   futures, status, result, ready, waiter, taken, cur, doneAtTake,
                   count, raised, prev>>

\* The consumer asks for the next record: count += 1, and break at the cap.
Resume ==
    /\ UNCHANGED <<fetchVars, scrapeVars, streamVars, linkVars, recVars>>
    /\ pc = "yielded"
    /\ sse = "off" \/ (sse = "open" /\ Len(events) = Len(emitted))
    /\ count' = count + 1
    /\ pc' = IF count + 1 >= max_products THEN "shutdown" ELSE "loop"
    /\ cur' = 0
    /\ UNCHANGED <<start_cats, max_products, max_workers, first_fetch, product_links, cat_todo,
                   futures, status, result, ready, waiter, taken, doneAtTake,
                   visited_products, emitted, raised, prev>>

\* as_completed has yielded every future: the for loop ends.
LoopExhaustedNever == FALSE

LoopExhausted == taken = SeqToSet(futures)

LoopEnd ==
    /\ UNCHANGED <<fetchVars, scrapeVars, streamVars, linkVars, recVars>>
    /\ pc = "loop"
    /\ LoopExhausted
    /\ pc' = "shutdown"
    /\ UNCHANGED <<start_cats, max_products, max_workers, first_fetch, product_links, cat_todo,
                   futures, status, result, ready, waiter, taken, cur, doneAtTake,
                   visited_products, count, emitted, raised, prev>>

\* Leaving the with block: executor.shutdown(wait=True) returns once every
\* submitted task has run to its end; then the generator ends or raises.
ShutdownReturns == \A u \in SeqToSet(futures) : status[u] = "done"

Shutdown ==
    /\ UNCHANGED <<fetchVars, scrapeVars, streamVars, linkVars, recVars>>
    /\ pc = "shutdown"
    /\ ShutdownReturns
    /\ pc' = IF raised THEN "raised" ELSE "done"
    /\ UNCHANGED <<start_cats, max_products, max_workers, first_fetch, product_links, cat_todo,
                   futures, status, result, ready, waiter, taken, cur, doneAtTake,
                   visited_products, count, emitted, raised, prev>>

Ended == pc \in {"done", "raised"}

CrawlNext ==
    \/ ExtractStartProducts
    \/ ExtractStartCategories
    \/ ExtractCategoryProducts
    \/ Submit
    \/ StartTask
    \/ \E u \in ProductUrls : CompleteTask(u)
    \/ AsCompleted
    \/ Take
    \/ Skip
    \/ RaiseUnhashable
    \/ Yield
    \/ Resume
    \/ LoopEnd
    \/ Shutdown

EmittedNames == {emitted[i].product_name : i \in 1..Len(emitted)}

(***************************************************************************)
(* /stream-crawl: event_generator reads crawl_stream(url), max_products at *)
(* its default, and sends one event per record.                            *)
(***************************************************************************)
DefaultMaxProducts == 50

\* json.dumps(product) raises TypeError for a value that is no JSON type: the
\* Tag the fallback stores as currency.
Serializable(product) == product.currency.type # "Tag"

DataEvent(product) == [kind |-> "data", product |-> product]
ErrorEvent == [kind |-> "error", product |-> NoRecord]

\* After the except branch has sent its event the generator function ends.
AfterErrorOpen == "open"

AfterError == "closed"

\* The record read from crawl_stream goes through apply_sentiment,
\* hybrid_marketing_recommendation and json.dumps, and is sent.
SendData ==
    /\ UNCHANGED <<fetchVars, scrapeVars, crawlVars, linkVars, recVars>>
    /\ sse = "open"
    /\ pc = "yielded"
    /\ Len(events) < Len(emitted)
    /\ Serializable(emitted[Len(emitted)])
    /\ events' = Append(events, DataEvent(emitted[Len(emitted)]))
    /\ UNCHANGED <<start_url, sse>>

\* json.dumps raises inside the loop: the for loop is left, which closes the
\* suspended crawl_stream generator (GeneratorExit at its yield, then the
\* with block's exit), and the except branch sends the error event.
SendError ==
    /\ UNCHANGED <<fetchVars, scrapeVars, linkVars, recVars>>
    /\ sse = "open"
    /\ pc = "yielded"
    /\ Len(events) < Len(emitted)
    /\ ~Serializable(emitted[Len(emitted)])
    /\ events' = Append(events, ErrorEvent)
    /\ sse' = AfterError
    /\ pc' = "shutdown"
    /\ raised' = TRUE
    /\ UNCHANGED <<start_cats, max_products, max_workers, first_fetch, product_links, cat_todo,
                   futures, status, result, ready, waiter, taken, cur, doneAtTake,
                   visited_products, count, emitted, prev, start_url>>

\* An exception left crawl_stream: the except branch sends the error event.
SendCrawlError ==
    /\ UNCHANGED <<fetchVars, scrapeVars, crawlVars, linkVars, recVars>>
    /\ sse = "open"
    /\ pc = "raised"
    /\ events' = Append(events, ErrorEvent)
    /\ sse' = AfterError
    /\ UNCHANGED start_url

\* crawl_stream is exhausted: the for loop and the generator function end.
StreamEnd ==
    /\ UNCHANGED <<fetchVars, scrapeVars, crawlVars, linkVars, recVars>>
    /\ sse = "open"
    /\ pc = "done"
    /\ sse' = "closed"
    /\ UNCHANGED <<start_url, events>>

StreamNext == CrawlNext \/ SendData \/ SendError \/ SendCrawlError \/ StreamEnd


(***************************************************************************)
(* extract_product_links / extract_category_links                          *)
(***************************************************************************)
\* A URL, as far as the extractors look at it: host, path and query (every
\* URL of the model is https and has no fragment).  An href with netloc ""
\* is relative to the page.
Url(netloc, path, query) == [netloc |-> netloc, path |-> path, query |-> query]

LinkHosts == {"shop.com", "www.shop.com", "other.com"}
LinkPaths == {"/products/1", "/collections/a", "/collections/a/products/2", "/about"}
LinkQueries == {"", "ref=nav"}

Hrefs ==
    {Url(h, p, q) : h \in LinkHosts \cup {""}, p \in LinkPaths, q \in LinkQueries}

\* urljoin(base_url, a["href"]): an absolute href is kept, a relative one
\* lands on the page's host.
urljoin(base, href) ==
    IF href.netloc = "" THEN [href EXCEPT !.netloc = base.netloc] ELSE href

\* normalize(url): scheme, netloc and path; the query is dropped.
normalize(url) == [url EXCEPT !.query = ""]

\* is_same_domain(base, new): the two netloc strings are equal.
is_same_domain(base, new) == base.netloc = new.netloc

\* `marker in link` for the links of the model.
HasMarker(link, marker) ==
    \/ (marker = "/products/"
          /\ link.path \in {"/products/1", "/collections/a/products/2"})
    \/ (marker = "/collections/"
          /\ link.path \in {"/collections/a", "/collections/a/products/2"})

extract_product_links(base, gotSoup, hrefs) ==
    IF ~gotSoup THEN {}
    ELSE {normalize(urljoin(base, a)) :
            a \in {x \in hrefs :
                     /\ is_same_domain(base, normalize(urljoin(base, x)))
                     /\ HasMarker(normalize(urljoin(base, x)), "/products/")}}

extract_category_links(base, gotSoup, hrefs) ==
    IF ~gotSoup THEN {}
    ELSE {normalize(urljoin(base, a)) :
            a \in {x \in hrefs :
                     /\ is_same_domain(base, normalize(urljoin(base, x)))
                     /\ HasMarker(normalize(urljoin(base, x)), "/collections/")}}

\* The value of a call: not returned yet, or the set returned and whether
\* get_soup gave a document.
NoLinks == [state |-> "unset", soup |-> FALSE, set |-> {}]
Returns(gotSoup, set) == [state |-> "returned", soup |-> gotSoup, set |-> set]

MaxAnchors == 2

\* The subsets of S with at most k elements.
RECURSIVE SetsUpTo(_, _)
SetsUpTo(S, k) ==
    IF k = 0 THEN {{}}
    ELSE LET smaller == SetsUpTo(S, k - 1)
         IN  smaller \cup {A \cup {x} : A \in smaller, x \in S}

IdleLinks ==
    /\ base_url = Url("shop.com", "/", "")
    /\ anchors = {}
    /\ links = NoLinks
    /\ categories = NoLinks

LinkInit ==
    /\ base_url \in {Url("shop.com", "/", ""), Url("www.shop.com", "/", "")}
    /\ anchors \in SetsUpTo(Hrefs, MaxAnchors)
    /\ links = NoLinks
    /\ categories = NoLinks

ExtractProductLinks ==
    /\ UNCHANGED <<fetchVars, scrapeVars, crawlVars, streamVars, recVars>>
    /\ links = NoLinks
    /\ \E s \in SoupOutcomes :
          links' = Returns(s = "soup", extract_product_links(base_url, s = "soup", anchors))
    /\ UNCHANGED <<base_url, anchors, categories>>

ExtractCategoryLinks ==
    /\ UNCHANGED <<fetchVars, scrapeVars, crawlVars, streamVars, recVars>>
    /\ categories = NoLinks
    /\ \E s \in SoupOutcomes :
          categories' =
              Returns(s = "soup", extract_category_links(base_url, s = "soup", anchors))
    /\ UNCHANGED <<base_url, anchors, links>>

(***************************************************************************)
(* apply_sentiment and hybrid_marketing_recommendation (backend/main.py).  *)
(* Ratings are in tenths, sentiments in thousandths, and a platform score  *)
(* is the code's score times 500000, so that every weight is an integer.   *)
(***************************************************************************)
\* The VADER compound scores of the reviews of a record, at most two here.
Compounds == {0 - 800, 0, 190, 200, 650, 750, 900}

ScoreLists ==
    {<<>>} \cup {<<a>> : a \in Compounds} \cup {<<a, b>> : a, b \in Compounds}

RECURSIVE SumSeq(_)
SumSeq(q) == IF q = <<>> THEN 0 ELSE Head(q) + SumSeq(Tail(q))

\* apply_sentiment: the mean of the compound scores, 0.0 without reviews
\* (the compounds of the model average to whole thousandths).
apply_sentiment(p) ==
    [rating |-> p.rating, review_count |-> p.review_count, scores |-> p.scores,
     category |-> p.category, month |-> p.month,
     avg_sentiment |-> IF p.scores = <<>> THEN 0
                       ELSE SumSeq(p.scores) \div Len(p.scores)]

\* _get_discount: the crawler sets no discount, so 0.0.
get_discount == 0

Platforms ==
    <<"Instagram", "Facebook Ads", "YouTube Ads", "Influencer Marketing",
      "Google Ads", "Email", "WhatsApp", "SMS", "Marketplace Ads">>

\* The factor of base_score in platform_scores, in hundredths.
Factor(platform) ==
    CASE platform \in {"Instagram", "Influencer Marketing", "Google Ads"} -> 100
      [] platform = "Facebook Ads" -> 95
      [] platform \in {"YouTube Ads", "Email", "WhatsApp", "Marketplace Ads"} -> 90
      [] platform = "SMS" -> 85

\* base_score times 5000:
\*   0.4 * rating / 5 + 0.2 * min(review_count / 1000, 1) + 0.4 * (sentiment + 1) / 2
BaseScore(p) ==
    40 * p.rating
    + (IF p.review_count < 1000 THEN p.review_count ELSE 1000)
    + (p.avg_sentiment + 1000)

Rule1(p) == p.avg_sentiment > 700 /\ get_discount < 10
Rule2(p) == p.category = "electronics" /\ p.month \in {9, 10, 11, 12}
Rule3(p) == p.avg_sentiment > 600 /\ p.review_count < 20
Rule4(p) == p.avg_sentiment < 200

RulesTriggered(p) ==
    {n \in 1..4 : \/ (n = 1 /\ Rule1(p)) \/ (n = 2 /\ Rule2(p))
                  \/ (n = 3 /\ Rule3(p)) \/ (n = 4 /\ Rule4(p))}

\* The boosts, times 500000: 0.15, 0.2, 0.1 and 0.1.
Boost(p, platform) ==
    (IF Rule1(p) /\ platform \in {"Influencer Marketing", "Instagram"} THEN 75000 ELSE 0)
    + (IF Rule2(p) /\ platform = "Google Ads" THEN 100000 ELSE 0)
    + (IF Rule3(p) /\ platform \in {"WhatsApp", "Email"} THEN 50000 ELSE 0)
    + (IF Rule4(p) /\ platform = "Google Ads" THEN 50000 ELSE 0)

PlatformScore(p, platform) == Factor(platform) * BaseScore(p) + Boost(p, platform)

\* sorted(..., reverse=True)[0]: the highest score; the sort is stable, so of
\* equal scores the platform that comes first in the dict.
PrimaryPlatform(p) ==
    Platforms[CHOOSE i \in 1..Len(Platforms) :
        \A j \in 1..Len(Platforms) :
            \/ PlatformScore(p, Platforms[j]) < PlatformScore(p, Platforms[i])
            \/ (PlatformScore(p, Platforms[j]) = PlatformScore(p, Platforms[i]) /\ i <= j)]

NoRecommendation ==
    [state |-> "unset", primary_platform |-> "", rules_triggered |-> {}]

hybrid_marketing_recommendation(p) ==
    [state |-> "returned", primary_platform |-> PrimaryPlatform(p),
     rules_triggered |-> RulesTriggered(p)]

\* The ratings and review counts scrape_product can put into a record.
CrawledRatings == {safe_float(x) : x \in RatingValues}
CrawledCounts == {safe_int(x) : x \in CountValues}

IdleRec ==
    /\ rec_product = [rating |-> 0, review_count |-> 0, scores |-> <<>>,
                      category |-> "generic", month |-> 6]
    /\ recommendation = NoRecommendation

RecInit ==
    /\ rec_product \in [rating : CrawledRatings, review_count : CrawledCounts,
                        scores : ScoreLists, category : {"generic", "electronics"},
                        month : {6, 11}]
    /\ recommendation = NoRecommendation

\* event_generator's two calls on a record: apply_sentiment, then
\* hybrid_marketing_recommendation.
Recommend ==
    /\ UNCHANGED <<fetchVars, scrapeVars, crawlVars, streamVars, linkVars>>
    /\ recommendation = NoRecommendation
    /\ recommendation' = hybrid_marketing_recommendation(apply_sentiment(rec_product))
    /\ UNCHANGED rec_product

\* crawl_stream is called again on the same site, with the same max_products:
\* every product URL requested before answers as it did then.
Rerun ==
    /\ UNCHANGED <<fetchVars, scrapeVars, streamVars, linkVars, recVars>>
    /\ Ended
    /\ ~prev.ran
    /\ prev' = [ran |-> TRUE, results |-> result, names |-> EmittedNames]
    /\ max_workers' \in PoolSizes
    /\ pc' = "start"
    /\ first_fetch' = "unset"
    /\ product_links' = {}
    /\ cat_todo' = <<>>
    /\ futures' = <<>>
    /\ status' = [u \in ProductUrls |-> "none"]
    /\ result' = [u \in ProductUrls |-> Unset]
    /\ ready' = <<>>
    /\ waiter' = <<>>
    /\ taken' = {}
    /\ cur' = 0
    /\ doneAtTake' = [u \in ProductUrls |-> {}]
    /\ visited_products' = {}
    /\ count' = 0
    /\ emitted' = <<>>
    /\ raised' = FALSE
    /\ UNCHANGED <<start_cats, max_products>>

IdleCrawl ==
    CrawlInit /\ max_products = 0 /\ start_url = "valid" /\ StreamOff /\ SmallSite

Init ==
    IdleFetch /\ IdleScrape /\ CrawlInit /\ StreamOff /\ SmallSite /\ IdleLinks /\ IdleRec
Next == CrawlNext
Spec == Init /\ [][Next]_vars

\* The worker threads run, every request returns or times out, and the
\* consumer keeps reading: some enabled step is eventually taken.
\* A max_products below 1 leaves the loop after the first record, as 1 does.
FairInit ==
    /\ IdleFetch /\ IdleScrape /\ CrawlInitFor(1..MaxProductsBound, {MaxWorkers})
    /\ StreamOff /\ SmallSite /\ IdleLinks /\ IdleRec
FairSpec == FairInit /\ [][Next]_vars /\ WF_vars(Next)

RerunInit ==
    /\ IdleFetch /\ IdleScrape /\ CrawlInitWith(PoolSizes) /\ StreamOff /\ SmallSite
    /\ IdleLinks /\ IdleRec
RerunNext == CrawlNext \/ Rerun
RerunSpec == RerunInit /\ [][RerunNext]_vars

FetchSpecInit == FetchInit /\ IdleScrape /\ IdleCrawl /\ IdleLinks /\ IdleRec
FetchNext == GetSoupAttempt \/ GetSoupGiveUp
FetchSpec == FetchSpecInit /\ [][FetchNext]_vars

ScrapeSpecInit == IdleFetch /\ ScrapeInit /\ IdleCrawl /\ IdleLinks /\ IdleRec
ScrapeNext == Scrape
ScrapeSpec == ScrapeSpecInit /\ [][ScrapeNext]_vars

StreamInit ==
    /\ IdleFetch
    /\ IdleScrape
    /\ CrawlInitFor({DefaultMaxProducts}, {MaxWorkers})
    /\ sse = "open"
    /\ events = <<>>
    /\ SmallSite
    /\ IdleLinks
    /\ IdleRec
StreamSpec == StreamInit /\ [][StreamNext]_vars

LinkSpecInit == IdleFetch /\ IdleScrape /\ IdleCrawl /\ LinkInit /\ IdleRec
LinkNext == ExtractProductLinks \/ ExtractCategoryLinks
LinkSpec == LinkSpecInit /\ [][LinkNext]_vars

FrontierInit ==
    /\ IdleFetch
    /\ IdleScrape
    /\ CrawlInitFor({MaxProductsBound}, {MaxWorkers})
    /\ StreamOff
    /\ start_cats = ManyCategoryLinks
    /\ IdleLinks
    /\ IdleRec
FrontierSpec == FrontierInit /\ [][Next]_vars

RecommendSpecInit == IdleFetch /\ IdleScrape /\ IdleCrawl /\ IdleLinks /\ RecInit
RecommendNext == Recommend
RecommendSpec == RecommendSpecInit /\ [][RecommendNext]_vars

(***************************************************************************)
(* Properties                                                              *)
(***************************************************************************)
EmittedUrl(i) == emitted[i].product_url
AllTasksDone == \A u \in product_links : status[u] = "done"

\* C1: in the stream of one crawl_stream call every emitted record has a
\* non-empty product name and no two emitted records share a name, whatever
\* the pages and the order in which the tasks complete.
C1_NamesNonEmptyAndUnique ==
    \A i \in 1..Len(emitted) :
        /\ Truthy(emitted[i].product_name)
        /\ \A j \in 1..Len(emitted) :
              i # j => emitted[i].product_name # emitted[j].product_name

\* Two URLs returned records of the same name, both were taken from the
\* completion stream, and the finished crawl emitted the name once.
C1_Witness ==
    /\ pc = "done"
    /\ Len(emitted) = 1
    /\ \E u, v \in taken :
          /\ u # v
          /\ IsRecord(result[u]) /\ IsRecord(result[v])
          /\ result[u].product_name = result[v].product_name
          /\ result[u].product_name = emitted[1].product_name

\* C2: for every integer max_products, 0 and negative values included, the
\* number of records emitted by the call never exceeds max_products: no
\* record is emitted as the i-th of the stream with i above max_products.
C2_EmittedWithinCap == \A i \in 1..Len(emitted) : i <= max_products

\* C3: a product URL whose fetch never succeeds or whose extraction raises
\* contributes no record and does not stop the crawl: once the crawl has
\* ended, every other frontier URL whose page yielded a record with a name
\* has that name in the stream, unless the cap was reached.
FailedUrl(u) == u \in product_links /\ result[u] = NoRecord

C3_FailureIsolation ==
    Ended =>
      \A u \in ProductUrls : FailedUrl(u) =>
        /\ \A i \in 1..Len(emitted) : EmittedUrl(i) # u
        /\ \A v \in product_links \ {u} :
              (IsRecord(result[v]) /\ Truthy(result[v].product_name)) =>
                 \/ result[v].product_name \in EmittedNames
                 \/ count >= max_products

\* C4: one get_soup call issues at most 3 requests whatever the responses,
\* every failed request (a 429 too) uses up one attempt, and the call returns
\* None exactly when no request it issued got a successful response.
C4_RetryBudget ==
    /\ requests <= Retries
    /\ soup = "pending" => attempt = requests
    /\ soup = "None" => \A i \in 1..requests : responses[i] # "ok"
    /\ soup = "soup" => responses[requests] = "ok"
    /\ (soup = "pending" /\ attempt >= Retries) =>
          \A i \in 1..requests : responses[i] # "ok"

\* The call met a 429, a timeout and an error status, and returned None
\* after three requests.
C4_Witness ==
    /\ soup = "None"
    /\ requests = 3
    /\ responses[1] = "s429"
    /\ responses[2] = "timeout"
    /\ responses[3] = "http_error"

\* C5: if the first fetch of the start page returns no document, the crawl
\* emits nothing, however later requests behave (here for a positive
\* max_products).
C5_EmptyWhenFirstFetchFails ==
    (max_products >= 1 /\ first_fetch = "None") => emitted = <<>>

\* C6: for fixed pages and a fixed max_products the set of names emitted is
\* the same for every pool size and every completion order: a second crawl
\* whose tasks returned what they returned in the first emits the same names
\* (here for a positive max_products).
C6_SameNamesEveryRun ==
    (max_products >= 1 /\ Ended /\ prev.ran /\ prev.results = result)
        => EmittedNames = prev.names

\* C7: a crawl whose consumer keeps reading and whose requests all return
\* ends, after at most one record per frontier URL, and when it has ended
\* max_products records were emitted or every frontier task has completed.
C7_Terminates ==
    /\ <>Ended
    /\ [](Ended => /\ Len(emitted) <= Cardinality(product_links)
                   /\ (count >= max_products \/ AllTasksDone))

\* The crawl ended on an exhausted frontier of two URLs, below the cap.
C7_Witness ==
    /\ pc = "done"
    /\ Cardinality(product_links) = 2
    /\ Len(emitted) = 1
    /\ count < max_products

\* C8: once the emitted count has reached max_products and the loop is left,
\* no task still waiting in the executor's queue is started, and leaving the
\* with block does not wait for outstanding tasks.
CapReached ==
    pc = "shutdown" /\ ~raised /\ max_products >= 1 /\ count >= max_products

C8_AbandonsAfterCap ==
    /\ [][CapReached => \A u \in ProductUrls :
                            status[u] = "queued" => status'[u] = "queued"]_vars
    /\ [](CapReached => ENABLED Shutdown)

\* C9: records are emitted in completion order: a record emitted no later
\* than another one comes from a task that had completed when the other's
\* future was taken from the completion stream.
C9_CompletionOrder ==
    \A i, j \in 1..Len(emitted) :
        i <= j => EmittedUrl(i) \in doneAtTake[EmittedUrl(j)]

\* Two records were emitted in the reverse of their submission order.
C9_Witness ==
    /\ Len(emitted) = 2
    /\ Len(futures) = 2
    /\ EmittedUrl(1) = futures[2]
    /\ EmittedUrl(2) = futures[1]

\* C10: every record scrape_product returns has a non-empty name: a page
\* from which no name can be derived yields None.
C10_RecordHasName == IsRecord(scraped) => Truthy(scraped.product_name)

\* The page has no JSON-LD object typed Product, at any place of any script.
NoProductObject(d) ==
    \A i \in 1..Len(d.scripts) :
        \A j \in 1..Len(d.scripts[i].items) : d.scripts[i].items[j].type # "Product"

Returned == scraped # Unset

\* C11: for a fetched page with no structured Product object, no Open-Graph
\* title and no h1 element, scrape_product returns None, whatever other meta
\* tags (description, price, currency) the page has.
C11_NullWithoutNameSource ==
    (Returned /\ NoProductObject(page) /\ page.og_title = Absent /\ page.h1 = Absent)
        => scraped = NoRecord

\* A fetched page with a description and a price meta tag, but no Product
\* object, og:title or h1, was scraped and gave None.
C11_Witness ==
    /\ Returned
    /\ fetched
    /\ NoProductObject(page) /\ page.og_title = Absent /\ page.h1 = Absent
    /\ page.og_desc # Absent
    /\ page.meta_price # Absent
    /\ scraped = NoRecord

\* C12: every record scrape_product returns has a rating between 0 and 5
\* inclusive (0..50 tenths) and a review count of at least 0, whatever values
\* the structured data, the microdata, the badge or the scraped texts hold.
C12_RatingAndCountInRange ==
    IsRecord(scraped) =>
        /\ 0 <= scraped.rating /\ scraped.rating <= 50
        /\ scraped.review_count >= 0

\* C13: the reviews list of every record has at most 5 entries, whichever
\* tier supplied them and however many matching elements the page holds.
C13_AtMostFiveReviews == IsRecord(scraped) => Len(scraped.reviews) <= 5

\* C14: in the meta-tag fallback, when the page has a price meta tag, the
\* record's price is the parsed amount and its currency is the string content
\* of the currency meta tag, or None without that tag; the currency of every
\* record is None or a string.
C14_MetaPriceAndCurrency ==
    IsRecord(scraped) =>
        /\ scraped.currency.type \in {"NoneType", "str"}
        /\ (NoProductObject(page) /\ page.meta_price # Absent) =>
              /\ scraped.price = Price(safe_float(page.meta_price))
              /\ scraped.currency = IF page.meta_currency = Absent THEN NoneV
                                    ELSE Str(page.meta_currency.val)

\* C15: no single bad page is fatal for /stream-crawl: once the request has
\* ended, every frontier URL whose page gave a record with a usable name has
\* that name in a data event, whatever the other pages contained (the cap of
\* 50 is out of reach; stated here for crawls in which every name is
\* hashable, so that crawl_stream itself raises nothing).
DataNames ==
    {events[i].product.product_name : i \in {k \in 1..Len(events) : events[k].kind = "data"}}

Deliverable(r) ==
    /\ IsRecord(r)
    /\ Truthy(r.product_name)
    /\ Hashable(r.product_name)
    /\ Serializable(r)

C15_NoFatalPathFromOneUrl ==
    (sse = "closed" /\ Ended
        /\ \A u \in product_links : Hashable(result[u].product_name)) =>
        \A v \in product_links :
            Deliverable(result[v]) => result[v].product_name \in DataNames

\* C16: in the event stream of /stream-crawl an error event is the last
\* event, so there is at most one and the stream is closed after it, and
\* every data event carries, whole and unchanged, the record crawl_stream
\* yielded at that position.
C16_SingleFinalErrorEvent ==
    /\ \A i \in 1..Len(events) :
          /\ events[i].kind = "error" => (i = Len(events) /\ sse = "closed")
          /\ events[i].kind = "data" =>
                /\ i <= Len(emitted)
                /\ events[i].product = emitted[i]
                /\ IsRecord(events[i].product)

\* A data event was sent, then an error event ended the stream.
C16_Witness ==
    /\ Len(events) = 2
    /\ events[1].kind = "data"
    /\ events[2].kind = "error"
    /\ sse = "closed"

\* C17: with a malformed start URL crawl_stream fails with an error to its
\* caller before any task is dispatched: no task is submitted and the call
\* never ends as a normal stream (here for a positive max_products).
C17_MalformedFailsFast ==
    (start_url = "malformed" /\ max_products >= 1) =>
        /\ futures = <<>>
        /\ pc # "done"

\* C18: when the page has Product objects, the record is built from the first
\* of them in document order, wherever it sits (top-level object, @graph
\* element, array element): a later script never replaces it.
RECURSIVE AllObjects(_)
AllObjects(scripts) ==
    IF scripts = <<>> THEN <<>>
    ELSE Head(scripts).items \o AllObjects(Tail(scripts))

C18_FirstProductWins ==
    (IsRecord(scraped) /\ ~NoProductObject(page)) =>
        scraped.product_name = FirstProduct(AllObjects(page.scripts)).name

\* C19: a non-zero rating or review count taken from the structured
\* aggregateRating is the record's: no fallback tier replaces it.
C19_StructuredValuesKept ==
    IsRecord(scraped) =>
        /\ FromAggregate(page).rating # 0 =>
              scraped.rating = FromAggregate(page).rating
        /\ FromAggregate(page).review_count # 0 =>
              scraped.review_count = FromAggregate(page).review_count

\* C20: the availability of a record is In Stock when the availability
\* string of the offers object contains "InStock", Out of Stock when it
\* contains "OutOfStock" but not "InStock", and Unknown otherwise (no offers
\* object, no availability key); of an offers list only the first element
\* counts.
FirstOffer(d) ==
    LET o == ProductOffers(d)
    IN  IF o.form = "absent" \/ o.items = <<>> THEN NoOffer ELSE o.items[1]

AvailabilityText(d) ==
    IF FirstOffer(d).kind = "dict" /\ FirstOffer(d).availability.type = "str"
    THEN FirstOffer(d).availability.val
    ELSE ""

C20_AvailabilityMapping ==
    IsRecord(scraped) =>
        scraped.availability =
            IF Contains(AvailabilityText(page), "InStock") THEN "In Stock"
            ELSE IF Contains(AvailabilityText(page), "OutOfStock") THEN "Out of Stock"
            ELSE "Unknown"

\* The offers list of the scraped page starts with an object that is in
\* stock and goes on with one that is out of stock: the record is In Stock.
C20_Witness ==
    /\ IsRecord(scraped)
    /\ page.offers.form = "list"
    /\ Len(page.offers.items) = 2
    /\ page.offers.items[1].availability = Str("https://schema.org/InStock")
    /\ page.offers.items[2].availability = Str("https://schema.org/OutOfStock")
    /\ scraped.availability = "In Stock"

\* C21: extract_product_links and extract_category_links retain exactly the
\* links of the page's registered domain: every returned link is on that
\* registered domain, and a link to another host of the same registered
\* domain (with or without the www prefix) that carries the path marker is
\* retained.
RegisteredDomain(host) ==
    IF host \in {"shop.com", "www.shop.com"} THEN "shop.com" ELSE host

SameRegisteredDomain(marker) ==
    {normalize(urljoin(base_url, a)) :
        a \in {x \in anchors :
                 /\ RegisteredDomain(urljoin(base_url, x).netloc)
                        = RegisteredDomain(base_url.netloc)
                 /\ HasMarker(urljoin(base_url, x), marker)}}

C21_SameRegisteredDomainRetained ==
    /\ (links.state = "returned" /\ links.soup)
          => links.set = SameRegisteredDomain("/products/")
    /\ (categories.state = "returned" /\ categories.soup)
          => categories.set = SameRegisteredDomain("/collections/")

\* C22: the frontier of a crawl is built once, before any task is
\* dispatched, and never grows afterwards: product_links changes only in the
\* extraction on the start page and on the listed category pages, while no
\* task exists; the category pages are listed once, from the start page, at
\* most 5 of them, each once, and the list then only shrinks.
C22_FrontierBuiltOnce ==
    /\ [][/\ product_links' # product_links
                => (pc \in {"start", "cat_loop"} /\ futures = <<>>)
          /\ cat_todo' # cat_todo
                => (pc = "categories" \/ cat_todo' = Tail(cat_todo))]_vars
    /\ [](/\ Len(cat_todo) <= 5
          /\ SeqToSet(cat_todo) \subseteq start_cats
          /\ Cardinality(SeqToSet(cat_todo)) = Len(cat_todo))

\* The start page links to more than 5 categories, 5 of them are listed and
\* none is left, and the tasks of the frontier are dispatched.
C22_Witness ==
    /\ Cardinality(start_cats) > 5
    /\ pc = "as_completed"
    /\ cat_todo = <<>>
    /\ futures # <<>>
    /\ SeqToSet(futures) = product_links

\* C23: the review texts of a record all come from one tier, the first of
\* reviewBody elements, Judge.me blocks (first five) and generic review
\* blocks (first five) that yields a non-empty text; no text of a lower tier
\* is added to them.
YieldsText(texts) == \E i \in 1..Len(texts) : texts[i] # ""

ReviewTier(d) ==
    IF YieldsText(d.review_bodies) THEN "body"
    ELSE IF YieldsText(FirstN(d.jdgm_revs, ReviewCap)) THEN "jdgm"
    ELSE IF YieldsText(FirstN(d.generic_blocks, ReviewCap)) THEN "generic"
    ELSE "none"

C23_ReviewsFromOneTier ==
    IsRecord(scraped) =>
        SeqToSet(scraped.reviews) =
            IF ReviewTier(page) = "none" THEN {} ELSE {ReviewTier(page)}

\* The page has reviewBody elements, all of them empty, and both Judge.me
\* and generic blocks with text: the record has the Judge.me texts only.
C23_Witness ==
    /\ IsRecord(scraped)
    /\ page.review_bodies # <<>>
    /\ ~YieldsText(page.review_bodies)
    /\ YieldsText(FirstN(page.jdgm_revs, ReviewCap))
    /\ YieldsText(FirstN(page.generic_blocks, ReviewCap))
    /\ scraped.reviews # <<>>
    /\ SeqToSet(scraped.reviews) = {"jdgm"}

\* C24: whenever the average sentiment of a record is below 0.2 (0.0 for a
\* record without review texts), Rule 4 fires, Rules 1 and 3 do not, and the
\* primary platform is Google Ads, for every rating and review count the
\* crawler can produce.
C24_LowSentimentGoogleAds ==
    (recommendation.state = "returned"
        /\ apply_sentiment(rec_product).avg_sentiment < 200) =>
            /\ 4 \in recommendation.rules_triggered
            /\ 1 \notin recommendation.rules_triggered
            /\ 3 \notin recommendation.rules_triggered
            /\ recommendation.primary_platform = "Google Ads"
====
